---- MODULE Spec2Model ----
(***************************************************************************)
(* PassThrough (src/passthrough.py): a user-space filesystem driver whose  *)
(* every operation is forwarded to the host filesystem under a backing     *)
(* root.  The model holds the driver's operations, translated handler by   *)
(* handler, and the part of the host the handlers act on: one backing      *)
(* directory with its entries, the inode table, the descriptor table.      *)
(* Path strings are sequences of one-character strings.                    *)
(***************************************************************************)
EXTENDS Integers, Sequences, FiniteSets, TLC

VARIABLES dir, inode, fdtab, held, last, wr, made, nops

vars == <<dir, inode, fdtab, held, last, wr, made, nops>>

(***************************************************************************)
(* Bounds                                                                  *)
(***************************************************************************)
\* longest path string the dispatcher hands in (path specification)
MaxStr == 4
\* inodes of the host besides the backing directory's own
MaxInodes == 2
\* descriptors the host grants the driver process
MaxFds == 2
\* longest file content
MaxLen == 2
\* largest user and group id
MaxId == 1
\* requests the dispatcher delivers in one run
MaxOps == 3
\* requests the dispatcher delivers in one run of the link specification
MaxLinkOps == 2

(***************************************************************************)
(* Strings                                                                 *)
(***************************************************************************)
SEP == "/"
Chars == {"/", ".", "a", "m"}

RECURSIVE StrUpTo(_)
StrUpTo(n) ==
    IF n = 0 THEN {<<>>}
    ELSE LET S == StrUpTo(n - 1)
         IN  S \cup {Append(s, c) : s \in {t \in S : Len(t) = n - 1}, c \in Chars}

\* str.startswith("/")
StartsWithSep(s) == Len(s) > 0 /\ s[1] = SEP

\* s.split("/"): the pieces between separators, empty pieces included
RECURSIVE SplitFrom(_, _, _)
SplitFrom(s, i, cur) ==
    IF i > Len(s) THEN <<cur>>
    ELSE IF s[i] = SEP THEN <<cur>> \o SplitFrom(s, i + 1, <<>>)
    ELSE SplitFrom(s, i + 1, Append(cur, s[i]))

Split(s) == SplitFrom(s, 1, <<>>)

\* "/".join(comps)
RECURSIVE JoinComps(_)
JoinComps(comps) ==
    IF comps = <<>> THEN <<>>
    ELSE IF Len(comps) = 1 THEN comps[1]
    ELSE comps[1] \o <<SEP>> \o JoinComps(Tail(comps))

DOT == <<".">>
DOTDOT == <<".", ".">>

\* os.path.join(a, b)
PathJoin(a, b) ==
    IF StartsWithSep(b) THEN b
    ELSE IF a = <<>> \/ a[Len(a)] = SEP THEN a \o b
    ELSE a \o <<SEP>> \o b

\* the component loop of os.path.normpath
RECURSIVE NormLoop(_, _, _)
NormLoop(comps, acc, rooted) ==
    IF comps = <<>> THEN acc
    ELSE LET c == Head(comps)
             rest == Tail(comps)
         IN  IF c = <<>> \/ c = DOT THEN NormLoop(rest, acc, rooted)
             ELSE IF c # DOTDOT
                     \/ (~rooted /\ acc = <<>>)
                     \/ (acc # <<>> /\ acc[Len(acc)] = DOTDOT)
                  THEN NormLoop(rest, Append(acc, c), rooted)
             ELSE IF acc # <<>> THEN NormLoop(rest, SubSeq(acc, 1, Len(acc) - 1), rooted)
             ELSE NormLoop(rest, acc, rooted)

\* the components of os.path.normpath(s)
NormComps(s) == NormLoop(Split(s), <<>>, StartsWithSep(s))

RECURSIVE CommonLen(_, _)
CommonLen(x, y) ==
    IF x = <<>> \/ y = <<>> \/ Head(x) # Head(y) THEN 0
    ELSE 1 + CommonLen(Tail(x), Tail(y))

\* os.path.relpath(path, start), both absolute
RelPath(path, start) ==
    LET start_list == NormComps(start)
        path_list == NormComps(path)
        i == CommonLen(start_list, path_list)
        rel_list == [k \in 1..(Len(start_list) - i) |-> DOTDOT]
                    \o SubSeq(path_list, i + 1, Len(path_list))
    IN  IF rel_list = <<>> THEN DOT ELSE JoinComps(rel_list)

(***************************************************************************)
(* The driver's mount root and its path translation                        *)
(***************************************************************************)
ROOTNAME == <<"m">>
root == <<SEP>> \o ROOTNAME

\* the translation that joins the path as it came
FullPathUnstripped(partial) == PathJoin(root, partial)

_full_path(partial) ==
    PathJoin(root, IF StartsWithSep(partial) THEN Tail(partial) ELSE partial)

(***************************************************************************)
(* The host: the backing directory (inode 0) and its entries, the inode     *)
(* table and the descriptor table.  The order in which a listing reports   *)
(* the entries is the host's to choose.                                    *)
(* Subdirectories of the backing directory stay empty: the dispatcher's    *)
(* paths are one component deep.  Position -1 is the host's "/" directory, *)
(* which holds the backing directory alone and is not the driver's to      *)
(* change.                                                                 *)
(***************************************************************************)
Ids == 0..MaxId
\* the identity the driver process runs under
DriverId == [uid |-> 0, gid |-> 0]
Modes == {4, 6}
\* the mode the host gives every symbolic link (0o777)
LinkMode == 511
\* st_size of a directory on the host
DirSize == 4096
\* bytes a caller writes; 0 is what the host fills a hole with
Bytes == {1}

FreeInode ==
    [kind |-> "free", nlink |-> 0, data |-> <<>>, target |-> <<>>,
     uid |-> 0, gid |-> 0, mode |-> 0]
NewInode(k, t, m) ==
    [kind |-> k, nlink |-> 1, data |-> <<>>, target |-> t,
     uid |-> DriverId.uid, gid |-> DriverId.gid, mode |-> m]
\* path: the path the dispatcher opened the handle with and passes along with it
ClosedFd == [open |-> FALSE, ino |-> 0, acc |-> "r", append |-> FALSE, path |-> <<>>]
SlashAttr ==
    [kind |-> "dir", nlink |-> 1, data |-> <<>>, target |-> <<>>,
     uid |-> 0, gid |-> 0, mode |-> 6]

\* the inode a position stands for
NodeIn(it, p) == IF p = -1 THEN SlashAttr ELSE it[p]
Node(p) == NodeIn(inode, p)

\* the inode number of entry `c` of the backing directory, 0 when there is none
Lookup(d, c) ==
    IF \E k \in 1..Len(d) : d[k].name = c
    THEN d[CHOOSE k \in 1..Len(d) : d[k].name = c].ino
    ELSE 0

\* the walk ended on inode p, reached as entry `c` of its directory (<<>>: as a
\* directory reached by "", "." or "..")
Found(p, c) == [err |-> "OK", ino |-> p, parent |-> -2, name |-> c]
Failed(e) == [err |-> e, ino |-> -2, parent |-> -2, name |-> <<>>]
\* component `c` is missing in directory `par`; it can be created there when it is
\* the path's last component
Missing(rest, par, c) ==
    IF rest = <<>> THEN [err |-> "ENOENT", ino |-> -2, parent |-> par, name |-> c]
    ELSE Failed("ENOENT")

\* the host's path walk, in directory listing d and inode table it, from directory
\* `pos` over components `comps`; `follow` says whether a symbolic link in the
\* last component is followed, `fuel` bounds the links followed (ELOOP)
RECURSIVE Walk(_, _, _, _, _, _)
Walk(d, it, pos, comps, follow, fuel) ==
    IF comps = <<>> THEN Found(pos, <<>>)
    ELSE LET c == Head(comps)
             rest == Tail(comps)
         IN  IF c = <<>> \/ c = DOT THEN Walk(d, it, pos, rest, follow, fuel)
             ELSE IF c = DOTDOT
                  THEN Walk(d, it, IF pos > 0 THEN 0 ELSE -1, rest, follow, fuel)
             ELSE IF pos = -1
                  THEN IF c = ROOTNAME THEN Walk(d, it, 0, rest, follow, fuel)
                       ELSE Missing(rest, -1, c)
             ELSE IF pos > 0 THEN Missing(rest, pos, c)
             ELSE LET i == Lookup(d, c)
                  IN  IF i = 0 THEN Missing(rest, 0, c)
                      ELSE IF it[i].kind = "link" /\ (rest # <<>> \/ follow)
                           THEN LET t == it[i].target
                                IN  IF fuel = 0 THEN Failed("ELOOP")
                                    ELSE IF t = <<>> THEN Failed("ENOENT")
                                    ELSE IF StartsWithSep(t)
                                         THEN Walk(d, it, -1, Tail(Split(t)) \o rest,
                                                   follow, fuel - 1)
                                    ELSE Walk(d, it, 0, Split(t) \o rest, follow, fuel - 1)
                      ELSE IF rest = <<>> THEN Found(i, c)
                      ELSE IF it[i].kind = "dir" THEN Walk(d, it, i, rest, follow, fuel)
                      ELSE Failed("ENOTDIR")

\* the host's lookup of an absolute path string in listing d and inode table it
ResolveIn(d, it, path, follow) ==
    IF path = <<>> THEN Failed("ENOENT")
    ELSE Walk(d, it, -1, Split(path), follow, MaxInodes + 1)

\* the lookup in the host's present state
Resolve(path, follow) == ResolveIn(dir, inode, path, follow)

\* the lowest free inode, 0 when the host has none left
FreeIno ==
    IF \E i \in 1..MaxInodes : inode[i].kind = "free"
    THEN CHOOSE i \in 1..MaxInodes :
             inode[i].kind = "free" /\ \A j \in 1..(i - 1) : inode[j].kind # "free"
    ELSE 0

\* the lowest free descriptor, 0 when the process has none left
FreeFd ==
    IF \E d \in 1..MaxFds : ~fdtab[d].open
    THEN CHOOSE d \in 1..MaxFds : ~fdtab[d].open /\ \A j \in 1..(d - 1) : fdtab[j].open
    ELSE 0

OpenFds == {d \in 1..MaxFds : fdtab[d].open}

\* the host frees an inode once no name and no descriptor refers to it
GC(it, ft) ==
    [i \in DOMAIN it |->
        IF i > 0 /\ it[i].kind # "free" /\ it[i].nlink = 0
           /\ \A d \in DOMAIN ft : ~(ft[d].open /\ ft[d].ino = i)
        THEN FreeInode ELSE it[i]]

RemoveEntry(d, c) == SelectSeq(d, LAMBDA e : e.name # c)

\* the names in directory p
Names(p) ==
    IF p = -1 THEN {ROOTNAME}
    ELSE IF p = 0 THEN {dir[k].name : k \in 1..Len(dir)}
    ELSE {}

\* what os.listdir may return for directory p: its names, each once, in an order
\* that is the host's to choose
Listings(p) ==
    LET names == Names(p)
        n == Cardinality(names)
    IN  {l \in [1..n -> names] : \A i, j \in 1..n : l[i] = l[j] => i = j}

\* the directories among the entries of directory p
SubDirs(p) ==
    IF p = -1 THEN 1
    ELSE IF p = 0 THEN Cardinality({k \in 1..Len(dir) : inode[dir[k].ino].kind = "dir"})
    ELSE 0

\* file content after `n` bytes of `b` are stored at position `pos`
Store(data, pos, b, n) ==
    [k \in 1..(IF pos + n > Len(data) THEN pos + n ELSE Len(data)) |->
        IF k > pos /\ k <= pos + n THEN b[k - pos]
        ELSE IF k <= Len(data) THEN data[k]
        ELSE 0]

\* file content cut or zero-extended to `n` bytes
Resize(data, n) == [k \in 1..n |-> IF k <= Len(data) THEN data[k] ELSE 0]

(***************************************************************************)
(* What the last operation was handed and what it gave back                *)
(***************************************************************************)
NoArg == [fault |-> 0]
NoMade == [valid |-> FALSE, real |-> <<>>, name |-> <<>>]
NoWrite == [valid |-> FALSE, ino |-> 0, off |-> 0, data |-> <<>>, ret |-> 0, append |-> FALSE]

\* op: the handler; path, real: its path argument and the real path it used;
\* herr: the error of the host call that failed ("NONE": none did);
\* res: how the handler ended ("OK" or the error raised); out: what it returned
Done(op, path, arg, herr, res, out) ==
    last' = [op |-> op, path |-> path, real |-> _full_path(path), arg |-> arg,
             herr |-> herr, res |-> res, out |-> out]

\* the write history is dropped when the host frees the file written
WrKeep(it) == IF wr.valid /\ it[wr.ino].kind = "free" THEN NoWrite ELSE wr

\* the backing directory as the driver finds it: file "a", one zero byte long
EmptyTree == [i \in 0..MaxInodes |-> IF i = 0 THEN NewInode("dir", <<>>, 6) ELSE FreeInode]
InitDir == <<[name |-> <<"a">>, ino |-> 1]>>
InitInode == [EmptyTree EXCEPT ![1] = [NewInode("file", <<>>, 6) EXCEPT !.data = <<0>>]]

InitLast ==
    [op |-> "init", path |-> <<>>, real |-> root, arg |-> NoArg,
     herr |-> "NONE", res |-> "OK", out |-> 0]

Init ==
    /\ dir = InitDir
    /\ inode = InitInode
    /\ fdtab = [d \in 1..MaxFds |-> ClosedFd]
    /\ held = {}
    /\ last = InitLast
    /\ wr = NoWrite
    /\ made = NoMade
    /\ nops = 0

(***************************************************************************)
(* FileSystem Methods.  Parameter f picks the host call of the handler     *)
(* that fails for a reason the model does not hold (an I/O error, a        *)
(* permission refused): 0 none, k the handler's k-th host call.            *)
(***************************************************************************)
FirstErr(e1, f, e2) == IF e1 # "OK" THEN e1 ELSE IF f = 1 THEN e2 ELSE "NONE"
Res(herr) == IF herr = "NONE" THEN "OK" ELSE herr

access(path, mode, f) ==
    LET w == Resolve(_full_path(path), TRUE)
        herr == FirstErr(w.err, f, "EACCES")
    IN  /\ Done("access", path, [fault |-> f], herr,
                IF herr # "NONE" THEN "EACCES" ELSE "OK", 0)
        /\ UNCHANGED <<dir, inode, fdtab, held, wr, made>>

chmod(path, mode, f) ==
    LET w == Resolve(_full_path(path), TRUE)
        herr == IF w.err = "OK" /\ w.ino = -1 THEN "EPERM" ELSE FirstErr(w.err, f, "EIO")
    IN  /\ Done("chmod", path, [fault |-> f], herr, Res(herr), 0)
        /\ inode' = IF herr = "NONE" THEN [inode EXCEPT ![w.ino].mode = mode] ELSE inode
        /\ UNCHANGED <<dir, fdtab, held, wr, made>>

\* os.chown with the ids in the wrong order
HostChownSwapped(d, it, real, uid, gid, fail) ==
    LET w == ResolveIn(d, it, real, TRUE)
        herr == IF w.err = "OK" /\ w.ino = -1 THEN "EPERM"
                ELSE IF w.err # "OK" THEN w.err
                ELSE IF fail THEN "EPERM" ELSE "NONE"
    IN  [herr |-> herr,
         inode |-> IF herr = "NONE"
                   THEN [it EXCEPT ![w.ino].uid = gid, ![w.ino].gid = uid] ELSE it]

\* os.chown(real, uid, gid) in listing d and inode table `it`
HostChown(d, it, real, uid, gid, fail) ==
    LET w == ResolveIn(d, it, real, TRUE)
        herr == IF w.err = "OK" /\ w.ino = -1 THEN "EPERM"
                ELSE IF w.err # "OK" THEN w.err
                ELSE IF fail THEN "EPERM" ELSE "NONE"
    IN  [herr |-> herr,
         inode |-> IF herr = "NONE"
                   THEN [it EXCEPT ![w.ino].uid = uid, ![w.ino].gid = gid] ELSE it]

chown(path, uid, gid, f) ==
    LET h == HostChown(dir, inode, _full_path(path), uid, gid, f = 1)
    IN  /\ Done("chown", path, [fault |-> f], h.herr, Res(h.herr), 0)
        /\ inode' = h.inode
        /\ UNCHANGED <<dir, fdtab, held, wr, made>>

\* the fields of os.lstat's result for position p that the handler copies; the
\* three times are the host clock's and are not kept.  A directory counts its
\* own name, its "." and the ".." of each directory in it, and its size is the
\* host's directory block.
Snapshot(p) ==
    LET n == Node(p)
    IN  [st_uid |-> n.uid, st_gid |-> n.gid, st_mode |-> <<n.kind, n.mode>>,
         st_nlink |-> IF n.kind = "dir" THEN 2 + SubDirs(p) ELSE n.nlink,
         st_size |-> IF n.kind = "link" THEN Len(n.target)
                     ELSE IF n.kind = "dir" THEN DirSize
                     ELSE Len(n.data)]

getattr(path, f) ==
    LET w == Resolve(_full_path(path), FALSE)
        herr == FirstErr(w.err, f, "EIO")
    IN  /\ Done("getattr", path, [fault |-> f], herr, Res(herr),
                IF herr = "NONE" THEN Snapshot(w.ino) ELSE 0)
        /\ UNCHANGED <<dir, inode, fdtab, held, wr, made>>

\* the listing put before the two conventional entries
ReaddirItemsListingFirst(isdir, listing) ==
    (IF isdir THEN listing ELSE <<>>) \o <<DOT, DOTDOT>>

\* items = [".", ".."], extended by the listing when the path is a directory
ReaddirItems(isdir, listing) == <<DOT, DOTDOT>> \o (IF isdir THEN listing ELSE <<>>)

readdir(path, f) ==
    LET w == Resolve(_full_path(path), TRUE)
        \* os.path.isdir: a stat that fails counts as "not a directory"
        staterr == FirstErr(w.err, f, "EIO")
        isdir == staterr = "NONE" /\ Node(w.ino).kind = "dir"
        \* os.listdir opens the directory: it takes a descriptor of its own and
        \* gives it back
        listerr == IF isdir /\ FreeFd = 0 THEN "EMFILE"
                   ELSE IF isdir /\ f = 2 THEN "EIO" ELSE "NONE"
    IN  /\ \E listing \in Listings(w.ino) :
               Done("readdir", path, [fault |-> f, listing |-> listing],
                    IF staterr # "NONE" THEN staterr ELSE listerr,
                    Res(listerr),
                    IF listerr = "NONE" THEN ReaddirItems(isdir, listing) ELSE <<>>)
        /\ UNCHANGED <<dir, inode, fdtab, held, wr, made>>

\* the stored target returned as it is, absolute or not
ReadlinkRaw(path_name) == path_name

\* what readlink returns for the stored target path_name
ReadlinkResult(path_name) ==
    IF StartsWithSep(path_name) THEN RelPath(path_name, root) ELSE path_name

readlink(path, f) ==
    LET w == Resolve(_full_path(path), FALSE)
        herr == IF w.err = "OK" /\ Node(w.ino).kind # "link" THEN "EINVAL"
                ELSE FirstErr(w.err, f, "EIO")
        path_name == Node(w.ino).target
    IN  /\ Done("readlink", path, [fault |-> f], herr, Res(herr),
                IF herr = "NONE" THEN ReadlinkResult(path_name) ELSE 0)
        /\ UNCHANGED <<dir, inode, fdtab, held, wr, made>>

\* the error of a host call that creates the last component of `real`
\* ("NONE": it can be created), w being the walk to it without following it
CreateErr(w, f) ==
    IF w.err = "OK" THEN "EEXIST"
    ELSE IF w.err # "ENOENT" \/ w.parent = -2 THEN w.err
    ELSE IF w.parent = -1 THEN "EACCES"
    ELSE IF w.parent > 0 \/ FreeIno = 0 THEN "ENOSPC"
    ELSE IF f = 1 THEN "EIO" ELSE "NONE"

\* the handler names `node`, which nothing defines: the call raises NameError
\* before os.mknod is reached
mknod(path, mode, device) ==
    /\ Done("mknod", path,
            [fault |-> 0, missing |-> CreateErr(Resolve(_full_path(path), FALSE), 0) = "NONE"],
            "NONE", "NameError", 0)
    /\ UNCHANGED <<dir, inode, fdtab, held, wr, made>>

rmdir(path, f) ==
    LET w == Resolve(_full_path(path), FALSE)
        herr == IF w.err # "OK" THEN w.err
                ELSE IF Node(w.ino).kind # "dir" THEN "ENOTDIR"
                ELSE IF w.ino <= 0 THEN "EBUSY"
                ELSE IF f = 1 THEN "EIO" ELSE "NONE"
        name == (CHOOSE e \in {dir[k] : k \in 1..Len(dir)} : e.ino = w.ino).name
    IN  /\ Done("rmdir", path, [fault |-> f], herr, Res(herr), 0)
        /\ IF herr = "NONE"
           THEN /\ dir' = RemoveEntry(dir, name)
                /\ inode' = GC([inode EXCEPT ![w.ino].nlink = 0], fdtab)
           ELSE UNCHANGED <<dir, inode>>
        /\ UNCHANGED <<fdtab, held, wr, made>>

mkdir(path, mode, f) ==
    LET w == Resolve(_full_path(path), FALSE)
        herr == CreateErr(w, f)
    IN  /\ Done("mkdir", path, [fault |-> f], herr, Res(herr), 0)
        /\ IF herr = "NONE"
           THEN /\ dir' = Append(dir, [name |-> w.name, ino |-> FreeIno])
                /\ inode' = [inode EXCEPT ![FreeIno] = NewInode("dir", <<>>, mode)]
           ELSE UNCHANGED <<dir, inode>>
        /\ UNCHANGED <<fdtab, held, wr, made>>

statfs(path, f) ==
    LET w == Resolve(_full_path(path), TRUE)
        herr == FirstErr(w.err, f, "EIO")
    IN  /\ Done("statfs", path, [fault |-> f], herr, Res(herr),
                IF herr # "NONE" THEN 0
                ELSE [f_files |-> MaxInodes + 1,
                      f_ffree |-> Cardinality({i \in 1..MaxInodes : inode[i].kind = "free"})])
        /\ UNCHANGED <<dir, inode, fdtab, held, wr, made>>

unlink(path, f) ==
    LET w == Resolve(_full_path(path), FALSE)
        herr == IF w.err # "OK" THEN w.err
                ELSE IF Node(w.ino).kind = "dir" THEN "EISDIR"
                ELSE IF f = 1 THEN "EIO" ELSE "NONE"
        it == GC([inode EXCEPT ![w.ino].nlink = @ - 1], fdtab)
    IN  /\ Done("unlink", path, [fault |-> f], herr, Res(herr), 0)
        /\ IF herr = "NONE"
           THEN /\ dir' = RemoveEntry(dir, w.name)
                /\ inode' = it
                /\ wr' = WrKeep(it)
                /\ made' = NoMade
           ELSE UNCHANGED <<dir, inode, wr, made>>
        /\ UNCHANGED <<fdtab, held>>

\* the link text translated like a path of the mount
LinkTextTranslated(name) == _full_path(name)

\* the text os.symlink is given to store: the handler's first argument as it came
LinkText(name) == name

symlink(name, target, f) ==
    LET w == Resolve(_full_path(target), FALSE)
        herr == IF name = <<>> THEN "ENOENT" ELSE CreateErr(w, f)
    IN  /\ Done("symlink", target, [fault |-> f, name |-> name], herr, Res(herr), 0)
        /\ IF herr = "NONE"
           THEN /\ dir' = Append(dir, [name |-> w.name, ino |-> FreeIno])
                /\ inode' = [inode EXCEPT ![FreeIno] = NewInode("link", LinkText(name), LinkMode)]
                /\ made' = [valid |-> TRUE, real |-> _full_path(target), name |-> name]
           ELSE UNCHANGED <<dir, inode, made>>
        /\ UNCHANGED <<fdtab, held, wr>>

rename(old, new, f) ==
    LET wo == Resolve(_full_path(old), FALSE)
        wn == Resolve(_full_path(new), FALSE)
        herr == IF wo.err # "OK" THEN wo.err
                ELSE IF wo.ino <= 0 \/ wo.name = <<>> THEN "EBUSY"
                ELSE IF wn.err = "OK" /\ (wn.ino <= 0 \/ wn.name = <<>>) THEN "EBUSY"
                ELSE IF wn.err = "OK" /\ Node(wo.ino).kind = "dir" /\ Node(wn.ino).kind # "dir"
                     THEN "ENOTDIR"
                ELSE IF wn.err = "OK" /\ Node(wo.ino).kind # "dir" /\ Node(wn.ino).kind = "dir"
                     THEN "EISDIR"
                ELSE IF wn.err = "OK" THEN (IF f = 1 THEN "EIO" ELSE "NONE")
                ELSE IF wn.err # "ENOENT" \/ wn.parent = -2 THEN wn.err
                ELSE IF wn.parent = -1 THEN "EACCES"
                ELSE IF wn.parent > 0 THEN "ENOSPC"
                ELSE IF f = 1 THEN "EIO" ELSE "NONE"
        same == wn.err = "OK" /\ wn.ino = wo.ino
        newname == wn.name
        it == IF wn.err = "OK" /\ ~same
              THEN GC([inode EXCEPT ![wn.ino].nlink = @ - 1], fdtab) ELSE inode
    IN  /\ Done("rename", old, [fault |-> f], herr, Res(herr), 0)
        /\ IF herr = "NONE" /\ ~same
           THEN /\ dir' = Append(RemoveEntry(RemoveEntry(dir, wo.name), newname),
                                 [name |-> newname, ino |-> wo.ino])
                /\ inode' = it
                /\ wr' = WrKeep(it)
                /\ made' = NoMade
           ELSE UNCHANGED <<dir, inode, wr, made>>
        /\ UNCHANGED <<fdtab, held>>

\* os.link on Linux is link(2), which links a symbolic link itself
link(target, name, f) ==
    LET ws == Resolve(_full_path(target), FALSE)
        wd == Resolve(_full_path(name), FALSE)
        \* the host looks the new name up before it refuses to link a directory
        herr == IF ws.err # "OK" THEN ws.err
                ELSE IF wd.err = "OK" THEN "EEXIST"
                ELSE IF wd.err # "ENOENT" \/ wd.parent = -2 THEN wd.err
                ELSE IF wd.parent = -1 THEN "EACCES"
                ELSE IF Node(ws.ino).kind = "dir" THEN "EPERM"
                ELSE IF wd.parent > 0 THEN "ENOSPC"
                ELSE IF f = 1 THEN "EIO" ELSE "NONE"
    IN  /\ Done("link", target, [fault |-> f], herr, Res(herr), 0)
        /\ IF herr = "NONE"
           THEN /\ dir' = Append(dir, [name |-> wd.name, ino |-> ws.ino])
                /\ inode' = [inode EXCEPT ![ws.ino].nlink = @ + 1]
           ELSE UNCHANGED <<dir, inode>>
        /\ UNCHANGED <<fdtab, held, wr, made>>

\* file times are not part of the host model: the call's outcome is all that is kept
utimens(path, times, f) ==
    LET w == Resolve(_full_path(path), TRUE)
        herr == IF w.err = "OK" /\ w.ino = -1 THEN "EPERM" ELSE FirstErr(w.err, f, "EIO")
    IN  /\ Done("utimens", path, [fault |-> f], herr, Res(herr), 0)
        /\ UNCHANGED <<dir, inode, fdtab, held, wr, made>>

(***************************************************************************)
(* File Methods                                                            *)
(***************************************************************************)
\* the flag words the dispatcher passes to open
O_RDONLY == [acc |-> "r", append |-> FALSE]
O_WRONLY == [acc |-> "w", append |-> FALSE]
O_RDWR == [acc |-> "rw", append |-> FALSE]
O_WRONLY_APPEND == [acc |-> "w", append |-> TRUE]
O_RDWR_APPEND == [acc |-> "rw", append |-> TRUE]
OpenFlags == {O_RDONLY, O_WRONLY, O_RDWR, O_WRONLY_APPEND, O_RDWR_APPEND}

\* os.open(real, flags [| O_CREAT], mode): the error ("NONE": none), the
\* descriptor, and the directory and inode table afterwards
HostOpen(real, flags, creat, mode, fail) ==
    LET w == Resolve(real, TRUE)
        exists == w.err = "OK"
        herr == IF FreeFd = 0 THEN "EMFILE"
                ELSE IF exists /\ Node(w.ino).kind = "dir" /\ flags.acc # "r" THEN "EISDIR"
                ELSE IF exists THEN (IF fail THEN "EIO" ELSE "NONE")
                ELSE IF ~creat \/ w.err # "ENOENT" \/ w.parent = -2 THEN w.err
                ELSE IF w.parent = -1 THEN "EACCES"
                ELSE IF w.parent > 0 \/ FreeIno = 0 THEN "ENOSPC"
                ELSE IF fail THEN "EIO" ELSE "NONE"
        ino == IF exists THEN w.ino ELSE FreeIno
    IN  [herr |-> herr,
         fd |-> IF herr = "NONE" THEN FreeFd ELSE 0,
         ino |-> IF herr = "NONE" THEN ino ELSE 0,
         dir |-> IF herr = "NONE" /\ ~exists
                 THEN Append(dir, [name |-> w.name, ino |-> ino]) ELSE dir,
         inode |-> IF herr = "NONE" /\ ~exists
                   THEN [inode EXCEPT ![ino] = NewInode("file", <<>>, mode)] ELSE inode]

OpenedFd(ino, flags, path) ==
    [open |-> TRUE, ino |-> ino, acc |-> flags.acc, append |-> flags.append, path |-> path]

open(path, flags, f) ==
    LET h == HostOpen(_full_path(path), flags, FALSE, 0, f = 1)
    IN  /\ Done("open", path, [fault |-> f], h.herr, Res(h.herr), h.fd)
        /\ IF h.herr = "NONE"
           THEN /\ fdtab' = [fdtab EXCEPT ![h.fd] = OpenedFd(h.ino, flags, path)]
                /\ held' = held \cup {h.fd}
           ELSE UNCHANGED <<fdtab, held>>
        /\ UNCHANGED <<dir, inode, wr, made>>

\* ctx: the caller's uid and gid, as fuse_get_context() gives them
create(path, mode, ctx, f) ==
    LET h == HostOpen(_full_path(path), O_WRONLY, TRUE, mode, f = 1)
        c == HostChown(h.dir, h.inode, _full_path(path), ctx.uid, ctx.gid, f = 2)
        herr == IF h.herr # "NONE" THEN h.herr ELSE c.herr
    IN  /\ Done("create", path, [fault |-> f, ctx |-> ctx], herr, Res(herr),
                IF herr = "NONE" THEN h.fd ELSE 0)
        /\ dir' = h.dir
        /\ inode' = IF h.herr = "NONE" THEN c.inode ELSE inode
        \* the descriptor os.open returned stays open whether or not os.chown raises
        /\ fdtab' = IF h.herr = "NONE"
                    THEN [fdtab EXCEPT ![h.fd] = OpenedFd(h.ino, O_WRONLY, path)] ELSE fdtab
        /\ held' = IF herr = "NONE" THEN held \cup {h.fd} ELSE held
        /\ UNCHANGED <<wr, made>>

\* where os.read reads after os.lseek(fd, offset, SEEK_SET)
ReadPos(d, offset) == offset

read(path, length, offset, fd, f) ==
    LET d == fdtab[fd]
        herr == IF d.acc = "w" THEN "EBADF"
                ELSE IF Node(d.ino).kind = "dir" THEN "EISDIR"
                ELSE IF f = 1 THEN "EIO" ELSE "NONE"
        data == Node(d.ino).data
        pos == ReadPos(d, offset)
        upto == IF pos + length > Len(data) THEN Len(data) ELSE pos + length
    IN  /\ fd \in held
        /\ path = fdtab[fd].path
        /\ Done("read", path, [fault |-> f, fd |-> fd, ino |-> d.ino, offset |-> offset, length |-> length],
                herr, Res(herr),
                IF herr = "NONE" THEN SubSeq(data, pos + 1, upto) ELSE 0)
        /\ UNCHANGED <<dir, inode, fdtab, held, wr, made>>

\* the write that does not reposition: a fresh descriptor stands at 0
WritePosUnmoved(d, offset) == IF d.append THEN Len(Node(d.ino).data) ELSE 0

\* where os.write stores after os.lseek(fd, offset, SEEK_SET): at offset, but at
\* the end of the file when the descriptor was opened O_APPEND
WritePos(d, offset) == IF d.append THEN Len(Node(d.ino).data) ELSE offset

\* short: the host takes one byte less than it was given
write(path, data, offset, fd, short, f) ==
    LET d == fdtab[fd]
        n == IF short THEN Len(data) - 1 ELSE Len(data)
        pos == WritePos(d, offset)
        herr == IF d.acc = "r" THEN "EBADF"
                ELSE IF pos + n > MaxLen THEN "EFBIG"
                ELSE IF f = 1 THEN "EIO" ELSE "NONE"
    IN  /\ fd \in held
        /\ path = fdtab[fd].path
        /\ short => Len(data) > 1
        /\ Done("write", path, [fault |-> f, fd |-> fd], herr, Res(herr), IF herr = "NONE" THEN n ELSE 0)
        /\ IF herr = "NONE"
           THEN /\ inode' = [inode EXCEPT ![d.ino].data = Store(@, pos, data, n)]
                /\ wr' = [valid |-> TRUE, ino |-> d.ino, off |-> offset, data |-> data,
                          ret |-> n, append |-> d.append]
           ELSE UNCHANGED <<inode, wr>>
        /\ UNCHANGED <<dir, fdtab, held, made>>

\* truncate that swallows what the host raises
truncate_swallowing(path, length, f) ==
    LET h == HostOpen(_full_path(path), O_RDWR, FALSE, 0, f = 1)
        herr == IF h.herr # "NONE" THEN h.herr
                ELSE IF f = 2 THEN "EIO" ELSE "NONE"
    IN  /\ Done("truncate", path, [fault |-> f], herr, "OK", 0)
        /\ IF herr = "NONE"
           THEN /\ inode' = [inode EXCEPT ![h.ino].data = Resize(@, length)]
                /\ wr' = IF wr.valid /\ wr.ino = h.ino THEN NoWrite ELSE wr
           ELSE UNCHANGED <<inode, wr>>
        /\ UNCHANGED <<dir, fdtab, held, made>>

\* open(real, "r+") takes a descriptor of its own, which the with-block closes on
\* either way out
truncate(path, length, f) ==
    LET h == HostOpen(_full_path(path), O_RDWR, FALSE, 0, f = 1)
        herr == IF h.herr # "NONE" THEN h.herr
                ELSE IF f = 2 THEN "EIO" ELSE "NONE"
    IN  /\ Done("truncate", path, [fault |-> f], herr, Res(herr), 0)
        /\ IF herr = "NONE"
           THEN /\ inode' = [inode EXCEPT ![h.ino].data = Resize(@, length)]
                /\ wr' = IF wr.valid /\ wr.ino = h.ino THEN NoWrite ELSE wr
           ELSE UNCHANGED <<inode, wr>>
        /\ UNCHANGED <<dir, fdtab, held, made>>

flush(path, fd, f) ==
    LET herr == IF f = 1 THEN "EIO" ELSE "NONE"
    IN  /\ fd \in held
        /\ path = fdtab[fd].path
        /\ Done("flush", path, [fault |-> f, fd |-> fd], herr, Res(herr), 0)
        /\ UNCHANGED <<dir, inode, fdtab, held, wr, made>>

\* release that closes every descriptor open on the file
release_all(path, fd, f) ==
    LET herr == IF f = 1 THEN "EIO" ELSE "NONE"
        ft == [d \in DOMAIN fdtab |->
                 IF fdtab[d].open /\ fdtab[d].ino = fdtab[fd].ino THEN ClosedFd ELSE fdtab[d]]
        it == GC(inode, ft)
    IN  /\ fd \in held
        /\ path = fdtab[fd].path
        /\ Done("release", path, [fault |-> f, fd |-> fd], herr, Res(herr), 0)
        /\ fdtab' = ft
        /\ held' = held \ {fd}
        /\ inode' = it
        /\ wr' = WrKeep(it)
        /\ UNCHANGED <<dir, made>>

\* close(2) gives the descriptor up even when it reports an error
release(path, fd, f) ==
    LET herr == IF f = 1 THEN "EIO" ELSE "NONE"
        ft == [fdtab EXCEPT ![fd] = ClosedFd]
        it == GC(inode, ft)
    IN  /\ fd \in held
        /\ path = fdtab[fd].path
        /\ Done("release", path, [fault |-> f, fd |-> fd], herr, Res(herr), 0)
        /\ fdtab' = ft
        /\ held' = held \ {fd}
        /\ inode' = it
        /\ wr' = WrKeep(it)
        /\ UNCHANGED <<dir, made>>

fsync(path, fdatasync, fd, f) ==
    LET herr == IF f = 1 THEN "EIO" ELSE "NONE"
    IN  /\ fd \in held
        /\ path = fdtab[fd].path
        /\ Done("fsync", path, [fault |-> f, fd |-> fd], herr, Res(herr), 0)
        /\ UNCHANGED <<dir, inode, fdtab, held, wr, made>>

(***************************************************************************)
(* The dispatcher: one request at a time (nothreads=True), each handler    *)
(* run to its end.  It hands in slash-rooted paths of the mounted          *)
(* namespace and, to the descriptor methods, handles it holds.             *)
(***************************************************************************)
NAME_A == <<"a">>
NAME_M == <<"m">>
VROOT == <<SEP>>
VPaths == {VROOT, <<SEP>> \o NAME_A, <<SEP>> \o NAME_M}
\* paths the dispatcher asks to create, remove or rename: never the mount root
VNames == VPaths \ {VROOT}
\* link targets: a relative one, an absolute one under the root
LinkTargets == {NAME_A, root \o <<SEP>> \o NAME_M}
\* callers: users other than the one the driver runs as
Contexts == {[uid |-> u, gid |-> g] : u \in 1..MaxId, g \in Ids}
Datas == UNION {[1..n -> Bytes] : n \in 1..MaxLen}
Fds == 1..MaxFds

\* one more request delivered
Count == nops < MaxOps /\ nops' = nops + 1

\* Host calls are made to fail from outside (f > 0) in the handlers where nothing
\* in the host's modelled state can make them fail, and in access, readdir,
\* create and truncate; the other handlers fail on what the walk finds.
Next ==
    \/ \E p \in VPaths, f \in 0..1 : Count /\ access(p, 4, f)
    \/ \E p \in VPaths, m \in Modes : Count /\ chmod(p, m, 0)
    \/ \E p \in VPaths, c \in Contexts : Count /\ chown(p, c.uid, c.gid, 0)
    \/ \E p \in VPaths : Count /\ getattr(p, 0)
    \/ \E p \in VPaths, f \in 0..2 : Count /\ readdir(p, f)
    \/ \E p \in VPaths : Count /\ readlink(p, 0)
    \/ \E p \in VNames : Count /\ mknod(p, 6, 0)
    \/ \E p \in VNames : Count /\ rmdir(p, 0)
    \/ \E p \in VNames : Count /\ mkdir(p, 6, 0)
    \/ \E p \in VPaths : Count /\ statfs(p, 0)
    \/ \E p \in VNames : Count /\ unlink(p, 0)
    \/ \E t \in LinkTargets, p \in VNames : Count /\ symlink(t, p, 0)
    \/ \E o \in VNames, n \in VNames : Count /\ rename(o, n, 0)
    \/ \E t \in VNames, n \in VNames : Count /\ link(t, n, 0)
    \/ \E p \in VPaths : Count /\ utimens(p, 0, 0)
    \/ \E p \in VPaths, fl \in OpenFlags : Count /\ open(p, fl, 0)
    \/ \E p \in VNames, c \in Contexts, f \in 0..2 : Count /\ create(p, 6, c, f)
    \/ \E p \in VPaths, n \in 1..MaxLen, o \in 0..(MaxLen - 1), d \in Fds, f \in 0..1 :
           Count /\ read(p, n, o, d, f)
    \/ \E p \in VPaths, b \in Datas, o \in 0..(MaxLen - 1), d \in Fds,
          sh \in BOOLEAN, f \in 0..1 : Count /\ write(p, b, o, d, sh, f)
    \/ \E p \in VNames, n \in 0..MaxLen, f \in 0..2 : Count /\ truncate(p, n, f)
    \/ \E p \in VPaths, d \in Fds, f \in 0..1 : Count /\ flush(p, d, f)
    \/ \E p \in VPaths, d \in Fds, f \in 0..1 : Count /\ release(p, d, f)
    \/ \E p \in VPaths, d \in Fds, f \in 0..1 : Count /\ fsync(p, FALSE, d, f)

Spec == Init /\ [][Next]_vars

(***************************************************************************)
(* Path specification: getattr handed every string of up to MaxStr         *)
(* characters, so that the translation is seen on every shape of path.     *)
(***************************************************************************)
Strings == StrUpTo(MaxStr)

NextPath == \E p \in Strings : getattr(p, 0) /\ UNCHANGED nops

SpecPath == Init /\ [][NextPath]_vars

(***************************************************************************)
(* Link specification: the backing directory holds nothing, or a link "m"  *)
(* an external tool made with an absolute target under the root; symlink   *)
(* is handed every target string over the root's own characters.           *)
(***************************************************************************)
LINK_A == <<SEP>> \o NAME_A
LINK_M == <<SEP>> \o NAME_M
TargetStrings == {t \in Strings : \A k \in 1..Len(t) : t[k] # "a"}
ExternalTarget == root \o <<SEP>> \o NAME_A

InitLink ==
    /\ \/ dir = <<>> /\ inode = EmptyTree
       \/ /\ dir = <<[name |-> NAME_M, ino |-> 1]>>
          /\ inode = [EmptyTree EXCEPT ![1] = NewInode("link", ExternalTarget, LinkMode)]
    /\ fdtab = [d \in 1..MaxFds |-> ClosedFd]
    /\ held = {}
    /\ last = InitLast
    /\ wr = NoWrite
    /\ made = NoMade
    /\ nops = 0

CountLink == nops < MaxLinkOps /\ nops' = nops + 1

NextLink ==
    \/ \E t \in TargetStrings : CountLink /\ symlink(t, LINK_A, 0)
    \/ \E p \in {LINK_A, LINK_M}, f \in 0..1 : CountLink /\ readlink(p, f)

SpecLink == InitLink /\ [][NextLink]_vars

(***************************************************************************)
(* Properties                                                              *)
(***************************************************************************)
\* the read that follows a write of the same file, at the write's offset and for
\* the length of what was written, with no write or truncation in between
WriteThenRead ==
    /\ last.op = "read" /\ last.res = "OK"
    /\ wr.valid /\ last.arg.ino = wr.ino
    /\ last.arg.offset = wr.off /\ last.arg.length = Len(wr.data)

\* C1 as stated: after write(path, b, o, h), a read(path, len(b), o, h') of the
\* same file returns exactly b, for every handle, offset and byte string
C1_ReadBackAnyWrite == WriteThenRead => last.out = wr.data

\* C1 as amended: after a write(path, b, o, h) that returned len(b) on a handle
\* not opened for appending, a read(path, len(b), o, h') that succeeds on a handle
\* of the same file returns exactly b, with nothing written to or cut from the
\* file in between
C1_ReadBack ==
    WriteThenRead /\ wr.ret = Len(wr.data) /\ ~wr.append => last.out = wr.data

C1_Witness ==
    /\ WriteThenRead /\ wr.ret = Len(wr.data) /\ ~wr.append
    /\ wr.off = 1 /\ last.out = wr.data /\ inode[wr.ino].data = <<0>> \o wr.data

\* C2: after create(path, mode) returns a handle, the file at the real path of
\* `path` is the one the handle is open on and its uid and gid are the caller's,
\* as the request context gave them
C2_CreateOwner ==
    last.op = "create" /\ last.res = "OK" =>
        LET w == Resolve(last.real, TRUE)
        IN  /\ w.err = "OK"
            /\ last.out \in held /\ fdtab[last.out].open /\ fdtab[last.out].ino = w.ino
            /\ inode[w.ino].uid = last.arg.ctx.uid
            /\ inode[w.ino].gid = last.arg.ctx.gid

C2_Witness ==
    /\ last.op = "create" /\ last.res = "OK"
    /\ last.arg.ctx.uid # DriverId.uid /\ last.arg.ctx.uid # last.arg.ctx.gid
    /\ inode[Resolve(last.real, TRUE).ino].uid = last.arg.ctx.uid

\* C3 as stated: whenever a host call of an operation fails, the operation ends
\* with that same error
C3_SameError == last.herr # "NONE" => last.res = last.herr

\* C3 as amended: a host call that raises ends the operation with that same
\* error, and no operation but readdir returns success after a host call failed;
\* access ends with EACCES whatever made the host's check fail; readdir takes a
\* failed directory test for "not a directory" and returns the two conventional
\* entries, while a failed listing ends it with the listing's error
C3_Propagation ==
    /\ last.op \notin {"access", "readdir"} =>
           /\ last.herr # "NONE" => last.res = last.herr
           /\ last.res = "OK" => last.herr = "NONE"
    /\ last.op = "access" =>
           last.res = (IF last.herr = "NONE" THEN "OK" ELSE "EACCES")
    /\ last.op = "readdir" =>
           /\ last.res # "OK" => last.res = last.herr /\ last.out = <<>>
           /\ last.res = "OK" /\ last.herr # "NONE" => last.out = <<DOT, DOTDOT>>

C3_Witness ==
    /\ last.op = "create" /\ last.herr = "EPERM" /\ last.res = "EPERM"
    /\ Resolve(last.real, TRUE).err = "OK"

\* C4 as stated: readdir(path) always yields "." then ".." first; when the real
\* path is a directory it then yields exactly the listing the host reports, in
\* the order the host reports it; when the real path is an empty directory or no
\* directory it yields those two entries and nothing else (no host call is made
\* to fail from outside)
C4_ReaddirAlways ==
    last.op = "readdir" /\ last.arg.fault = 0 =>
        LET w == Resolve(last.real, TRUE)
            isdir == w.err = "OK" /\ Node(w.ino).kind = "dir"
        IN  /\ last.res = "OK"
            /\ Len(last.out) >= 2 /\ last.out[1] = DOT /\ last.out[2] = DOTDOT
            /\ isdir => /\ SubSeq(last.out, 3, Len(last.out)) = last.arg.listing
                        /\ last.arg.listing \in Listings(w.ino)
            /\ (~isdir \/ Names(w.ino) = {}) => Len(last.out) = 2

\* C4 as amended: a readdir(path) of a directory that the host cannot list (the
\* driver has no descriptor left for it) ends with the host's error and yields
\* nothing; every other readdir yields "." then ".." first; when the real path
\* is a directory it then yields exactly the listing the host reported, each name
\* of the directory once, in the order the host reported them; when the real
\* path is an empty directory or no directory it yields those two entries and
\* nothing else (no host call is made to fail from outside)
C4_Readdir ==
    last.op = "readdir" /\ last.arg.fault = 0 =>
        LET w == Resolve(last.real, TRUE)
            isdir == w.err = "OK" /\ Node(w.ino).kind = "dir"
        IN  /\ last.res # "OK" <=> isdir /\ FreeFd = 0
            /\ last.res # "OK" => last.res = "EMFILE" /\ last.out = <<>>
            /\ last.res = "OK" =>
                   /\ Len(last.out) >= 2 /\ last.out[1] = DOT /\ last.out[2] = DOTDOT
                   /\ isdir => /\ SubSeq(last.out, 3, Len(last.out)) = last.arg.listing
                               /\ last.arg.listing \in Listings(w.ino)
                   /\ (~isdir \/ Names(w.ino) = {}) => Len(last.out) = 2

C4_Witness ==
    /\ last.op = "readdir" /\ last.arg.fault = 0 /\ last.path = VROOT
    /\ last.out = <<DOT, DOTDOT, NAME_M, NAME_A>>

\* C5: for every relative target t, symlink(t, l) stores exactly the text t at the
\* real path of l, and a readlink of that link returns exactly t
C5_SymlinkReadBack ==
    /\ last.op = "symlink" /\ last.res = "OK" /\ ~StartsWithSep(last.arg.name) =>
           LET w == Resolve(last.real, FALSE)
           IN  w.err = "OK" /\ Node(w.ino).kind = "link"
               /\ Node(w.ino).target = last.arg.name
    /\ last.op = "readlink" /\ last.res = "OK" /\ made.valid
       /\ Resolve(made.real, FALSE) = Resolve(last.real, FALSE)
       /\ ~StartsWithSep(made.name) =>
           last.out = made.name

C5_Witness ==
    /\ last.op = "readlink" /\ last.res = "OK" /\ made.valid
    /\ Resolve(made.real, FALSE) = Resolve(last.real, FALSE)
    /\ made.name = <<".", ".", "/", "m">> /\ last.out = made.name

\* C6: readlink of a link whose stored target is absolute returns a path that is
\* not absolute and that, joined onto the mount root, names the stored target;
\* a stored target that is not absolute is returned unchanged
C6_ReadlinkRelative ==
    last.op = "readlink" /\ last.res = "OK" =>
        LET t == Node(Resolve(last.real, FALSE).ino).target
        IN  /\ StartsWithSep(t) =>
                /\ ~StartsWithSep(last.out)
                /\ NormComps(PathJoin(root, last.out)) = NormComps(t)
            /\ ~StartsWithSep(t) => last.out = t

C6_Witness ==
    /\ last.op = "readlink" /\ last.res = "OK" /\ last.path = LINK_M
    /\ Node(Resolve(last.real, FALSE).ino).target = ExternalTarget
    /\ last.out = NAME_A

\* the real path taken relative to the mount root, as a path of the mount
BackToVirtual(real) == <<SEP>> \o RelPath(real, root)

\* one leading separator, then components none of which is empty, "." or ".."
Normalised(p) ==
    /\ StartsWithSep(p)
    /\ \A k \in 1..Len(Tail(Split(p))) : Tail(Split(p))[k] \notin {<<>>, DOT, DOTDOT}

\* C7 as stated: for every slash-rooted virtual path p, "/" and paths with
\* several leading separators included, the real path taken relative to the
\* mount root gives back p
C7_RoundTripEveryPath ==
    last.op = "getattr" /\ StartsWithSep(last.path) => BackToVirtual(last.real) = last.path

\* C7 as amended: for every virtual path p of one leading separator followed by
\* components that are not empty, "." or "..", the real path is the mount root
\* followed by p, and taken relative to the mount root it gives back p
C7_RoundTrip ==
    last.op = "getattr" /\ Normalised(last.path) =>
        /\ last.real = root \o last.path
        /\ BackToVirtual(last.real) = last.path

C7_Witness ==
    /\ last.op = "getattr" /\ last.path = <<"/", "a", "/", "m">>
    /\ last.real = root \o last.path /\ BackToVirtual(last.real) = last.path

\* C8: mknod on a path that does not exist in a writable directory creates a
\* device file at the real path and returns success
C8_MknodCreates ==
    last.op = "mknod" /\ last.arg.missing =>
        /\ last.res = "OK"
        /\ Resolve(last.real, FALSE).err = "OK"
        /\ Node(Resolve(last.real, FALSE).ino).kind = "dev"

\* what one step may do to the handles the dispatcher holds
HandlesKept ==
    LET op == last'.op
    IN  /\ op # "release" =>
               held \subseteq held' /\ \A h \in held : fdtab'[h] = fdtab[h]
        /\ op \notin {"release", "open", "create"} => held' = held
        /\ op \in {"open", "create"} => held' \ held \subseteq {last'.out}
        /\ op = "release" =>
               /\ last'.arg.fd \in held
               /\ held' = held \ {last'.arg.fd}
               /\ ~fdtab'[last'.arg.fd].open
               /\ \A h \in held' : fdtab'[h] = fdtab[h]

\* C9: a held handle is closed only by release of that handle: release(path, h)
\* closes h and no other held handle, and every other operation leaves each held
\* handle open and held (open and create add the handle they return)
C9_OnlyReleaseCloses == [][HandlesKept]_vars

C9_Witness ==
    /\ last.op = "truncate" /\ last.res = "OK"
    /\ \E h \in held : fdtab[h].open /\ fdtab[h].path = last.path

\* C10: the descriptors the driver opened and has not closed are the handles
\* returned to the dispatcher and not yet released
C10_NoDescriptorLeak == OpenFds = held
====
